---- MODULE Spec2Model ----
(***************************************************************************)
(* Schwab 1099-B to TXF converters.                                        *)
(*                                                                         *)
(*   convert-1099B-2022.py  the checkbox-driven converter (SpecA)          *)
(*   taxform_parser.py      the tokenizer-driven converter (SpecB)         *)
(*                                                                         *)
(* A text line is a sequence of tokens, the pieces between single spaces   *)
(* (an empty token stands for a doubled space).  A token is a record with  *)
(* the same six fields whatever its kind, so that any two compare.         *)
(***************************************************************************)
EXTENDS Integers, Sequences, FiniteSets, TLC

(***************************************************************************)
(* Tokens                                                                  *)
(***************************************************************************)
\* a word such as SHARES, X, GROSS; W("") is the empty token
W(s) == [k |-> "w", s |-> s, t |-> "", a |-> 0, b |-> 0, c |-> 0]
\* a decimal literal: sign sg ("" or "-"), a thousands group th before a comma
\* (-1: no comma), the digits un after it, a two-digit fraction fr (-1: none).
\* Num("", 2, 933, 94) is the text 2,933.94 and Num("", -1, 2, -1) the text 2.
Num(sg, th, un, fr) == [k |-> "num", s |-> sg, t |-> "", a |-> th, b |-> un, c |-> fr]
\* the text MM/DD/YYYY
Date(mm, dd, yyyy) == [k |-> "date", s |-> "", t |-> "", a |-> mm, b |-> dd, c |-> yyyy]
\* a security identifier: its first four characters and the rest
Id(p, r) == [k |-> "id", s |-> p, t |-> r, a |-> 0, b |-> 0, c |-> 0]

SHARES == W("SHARES")
SHARE == W("SHARE")
OF == W("OF")
GOOG == W("GOOG")
GOOGL == W("GOOGL")
X == W("X")
GROSS == W("GROSS")
Empty == W("")

\* the tokens of a line that are not empty: what \s+ steps over
Squeeze(line) == SelectSeq(line, LAMBDA tok : tok # Empty)

\* decimal.Decimal(text.replace(',', '')) in cents; the callers test IsDecimal first
DecimalOf(tok) ==
  LET whole == (IF tok.a >= 0 THEN tok.a * 1000 ELSE 0) + tok.b
      cents == whole * 100 + (IF tok.c >= 0 THEN tok.c ELSE 0)
  IN IF tok.s = "-" THEN 0 - cents ELSE cents

(***************************************************************************)
(* convert-1099B-2022.py                                                   *)
(***************************************************************************)
\* _CUSIPS: symbol -> identifier
CUSIPS == [GOOGL |-> Id("0207", "9K305"), GOOG |-> Id("0207", "9K107")]
CusipValues == {CUSIPS[s] : s \in DOMAIN CUSIPS}
\* _TXF_CATEGORIES: checkbox letter -> refnumber
TXF_CATEGORIES == [B |-> 711, E |-> 713]

\* \d+(?:\.\d+)?
IsQuantityA(tok) == tok.k = "num" /\ tok.s = "" /\ tok.a = -1
\* [\d,]+(?:\.\d+)  (the fraction is not optional)
IsAmountA(tok) == tok.k = "num" /\ tok.s = "" /\ tok.c >= 0
\* \d{2}/\d{2}/\d{4}
IsDateA(tok) == tok.k = "date"
\* GOOGL?
IsSymbolA(tok) == tok \in {GOOG, GOOGL}

\* re.search(r'Box ([BE]) checked', line): the letter of the first match, or ""
MarkerAt(line, i) ==
  /\ i + 2 <= Len(line)
  /\ line[i] = W("Box")
  /\ line[i + 1] \in {W(c) : c \in DOMAIN TXF_CATEGORIES}
  /\ line[i + 2] = W("checked")
MarkerOf(line) ==
  LET hits == {i \in 1..Len(line) : MarkerAt(line, i)}
  IN IF hits = {} THEN ""
     ELSE line[(CHOOSE i \in hits : \A j \in hits : i <= j) + 1].s

\* a first marker that later markers do not replace
CategoryAfter_FirstOnly(cat, line) == IF cat = "" THEN MarkerOf(line) ELSE cat
\* lines 73-75: txf_category after a marker line
CategoryAfter(cat, line) == MarkerOf(line)

\* (\d{2}/\d{2}/\d{4})\s+amount\s+amount(?:\s+amount)?\s+X$ on a sequence of
\* tokens that starts with the date: the fields, or ok = FALSE
MatchAmounts(toks) ==
  LET t == Squeeze(toks)
      good == /\ Len(toks) >= 1 /\ toks[1] # Empty /\ toks[Len(toks)] # Empty
              /\ Len(t) \in {4, 5}
              /\ IsDateA(t[1]) /\ IsAmountA(t[2]) /\ IsAmountA(t[3])
              /\ t[Len(t)] = X
              /\ (Len(t) = 5 => IsAmountA(t[4]))
  IN IF good
     THEN [ok |-> TRUE, acq_date |-> t[1], proceeds |-> t[2], basis |-> t[3],
           has_wash |-> Len(t) = 5, wash |-> IF Len(t) = 5 THEN t[4] ELSE Empty]
     ELSE [ok |-> FALSE, acq_date |-> Empty, proceeds |-> Empty, basis |-> Empty,
           has_wash |-> FALSE, wash |-> Empty]

\* \d+(?:\.\d+)? SHARES? OF (GOOGL?) at the start of the line
MatchSharesPrefix(line) ==
  /\ Len(line) >= 4
  /\ IsQuantityA(line[1])
  /\ line[2] \in {SHARES, SHARE}
  /\ line[3] = OF
  /\ IsSymbolA(line[4])

\* the line-2 pattern, anchored at the end of the line
MatchShares(line) == MatchSharesPrefix(line) /\ Len(line) = 4

\* the joined line-2-and-3 pattern
MatchCombined(line) ==
  IF MatchSharesPrefix(line) /\ Len(line) >= 5
  THEN MatchAmounts(SubSeq(line, 5, Len(line)))
  ELSE MatchAmounts(<< >>)

\* (\d{2}/\d{2}/\d{4})\sGROSS$
MatchSale(line) == Len(line) = 2 /\ IsDateA(line[1]) /\ line[2] = GROSS

\* The inputs of the checkbox-driven converter.  Between records the loop head
\* meets marker lines, other text and identifier lines (HeadLines); the n-th line
\* after an identifier line is one of RecordLines(n).
MB == <<W("Box"), W("B"), W("checked")>>
ME == <<W("with"), W("Box"), W("E"), W("checked")>>
OtherLine == <<Id("3825", "9P508")>>
ShareLines ==
  { <<Num("", -1, 2, -1), SHARES, OF, GOOG>>,
    <<Num("", -1, 0, -1), SHARES, OF, GOOG>>,
    <<Num("-", -1, 1, -1), SHARES, OF, GOOG>>,
    <<Num("", -1, 1, 50), SHARE, OF, GOOGL>> }
AmountLines ==
  { <<Date(1, 27, 2020), Num("", 2, 933, 94), Num("", 2, 933, 42), X>>,
    <<Date(7, 25, 2019), Num("", 4, 498, 54), Empty, Num("", 3, 413, 43),
      Num("", 1, 100, 22), X>> }
CombinedLines ==
  { <<Num("", -1, 16, 54), SHARES, OF, GOOG, Date(8, 25, 2020),
      Num("", 27, 212, 97), Num("", 26, 273, 91), X>> }
SaleLine == <<Date(2, 6, 2020), GROSS>>
DateOnlyLine == <<Date(5, 24, 2016)>>
HeadLines == {MB, ME, OtherLine} \cup {<<c>> : c \in CusipValues}
RecordLines(n) ==
  CASE n = 1 -> ShareLines \cup CombinedLines \cup {SaleLine}
    [] n = 2 -> AmountLines \cup {SaleLine}
    [] OTHER -> {SaleLine, DateOnlyLine}

\* the input has at most MaxLines lines
MaxLines == 8

VARIABLES
  \* convert-1099B-2022.py
  nlines,        \* len(lines)
  lines,         \* lines[0 .. input_line-1]: the lines read so far, in order
  input_line,    \* the loop's cursor, counted from 0 as in the source
  txf_category,  \* "" is None
  totals,        \* the defaultdict: checkbox letter -> Totals
  output,        \* the output file: whether it exists, and the blocks printed to it
  pcA,           \* "start", "loop", "done", "exit" (sys.exit) or "crash" (traceback)
  errA,          \* what the run ended with
  \* taxform_parser.py
  tlines,        \* Form1099Tokenizer.lines
  line_idx,      \* Form1099Tokenizer.line_idx
  tokens,        \* Form1099Tokenizer.tokens
  records,       \* the list parse1099Form builds and main sorts
  total_proceeds, total_basis, total_wash, total_num_records,
  is_txf,        \* outfilename.endswith('.txf')
  outfile,       \* the output file: whether it exists, and the blocks written to it
  pcB,           \* "parse", "sort", "check", "done" or "raise" (traceback)
  errB           \* the exception the run ended with

varsA == <<nlines, lines, input_line, txf_category, totals, output, pcA, errA>>
varsB == <<tlines, line_idx, tokens, records, total_proceeds, total_basis, total_wash,
           total_num_records, is_txf, outfile, pcB, errB>>
vars == <<varsA, varsB>>

NoError == [kind |-> "none", line |-> 0, text |-> << >>]
\* 'Error parsing input line %d: %s' % (input_line + 1, line)
ParsingErrorA(at, line) == [kind |-> "parse", line |-> at + 1, text |-> line]

\* TxfRecord: addField appends (op, value); __str__ ends the block with '^'
Field(op, value) == [op |-> op, value |-> value]
TxfStr(fields) == Append(fields, Field("^", << >>))

Today == Date(11, 2, 2026)
HeaderA ==
  TxfStr(<< Field("V", <<W("042")>>), Field("A", <<W("Self")>>),
            Field("D", <<Today>>) >>)

NoTotals == [c \in {} |-> [proceeds |-> 0, basis |-> 0, wash |-> 0]]
\* totals[key] of a defaultdict(Totals)
TotalsGet(tot, key) ==
  IF key \in DOMAIN tot THEN tot[key] ELSE [proceeds |-> 0, basis |-> 0, wash |-> 0]
TotalsPut(tot, key, val) ==
  [c \in DOMAIN tot \cup {key} |-> IF c = key THEN val ELSE tot[c]]
\* lines 174-177
TotalsAddA(tot, key, proceeds, basis, has_wash, wash) ==
  LET old == TotalsGet(tot, key)
  IN TotalsPut(tot, key,
       [proceeds |-> old.proceeds + DecimalOf(proceeds),
        basis |-> old.basis + DecimalOf(basis),
        wash |-> IF has_wash THEN old.wash + DecimalOf(wash) ELSE old.wash])

\* lines 189-199
ItemA(cat, desc, acq_date, sale_date, basis, proceeds, has_wash, wash) ==
  LET fixed == << Field("T", <<W("D")>>),
                  Field("N", <<Num("", -1, TXF_CATEGORIES[cat], -1)>>),
                  Field("P", desc),
                  Field("D", <<acq_date>>),
                  Field("D", <<sale_date>>),
                  Field("$", <<basis>>),
                  Field("$", <<proceeds>>) >>
  IN TxfStr(IF has_wash THEN Append(fixed, Field("$", <<wash>>)) ELSE fixed)

\* Lines 102-170 for the identifier line at index `at` (from 0), with `rest` the
\* lines that follow it as far as they are known and `avail` how many follow it
\* in the input.  status: "ok", "parse" and "pair" (sys.exit), "insufficient"
\* (sys.exit), "IndexError" (lines[input_line] past the end), or "more" (the
\* next line exists and is not in `rest`).  reads: lines of `rest` read.
ResultA(status, reads, err) ==
  [status |-> status, reads |-> reads, err |-> err, symbol |-> Empty, desc |-> << >>,
   acq_date |-> Empty, proceeds |-> Empty, basis |-> Empty, has_wash |-> FALSE,
   wash |-> Empty, sale_date |-> Empty]
NeedLine(n, rest, avail) ==
  IF n <= Len(rest) THEN "have" ELSE IF n <= avail THEN "more" ELSE "IndexError"
PairError(symbol, cusip) == [kind |-> "pair", line |-> 0, text |-> <<symbol, cusip>>]
SaleStepA(at, cusip, rest, avail, n, symbol, desc, m) ==
  \* input_line += 1; line = lines[input_line]; line 4 (or line 3)
  CASE NeedLine(n, rest, avail) = "more" -> ResultA("more", n - 1, NoError)
    [] NeedLine(n, rest, avail) = "IndexError" ->
         ResultA("IndexError", n - 1, [kind |-> "IndexError", line |-> 0, text |-> << >>])
    [] OTHER ->
         IF ~MatchSale(rest[n])
         THEN ResultA("parse", n, ParsingErrorA(at + n, rest[n]))
         ELSE [ResultA("ok", n, NoError) EXCEPT
                 !.symbol = symbol, !.desc = desc, !.acq_date = m.acq_date,
                 !.proceeds = m.proceeds, !.basis = m.basis,
                 !.has_wash = m.has_wash, !.wash = m.wash,
                 !.sale_date = rest[n][1]]
ParseA(at, cusip, rest, avail) ==
  IF avail + 1 < 3
  THEN ResultA("insufficient", 0, [kind |-> "insufficient", line |-> 0, text |-> << >>])
  ELSE IF Len(rest) < 1 THEN ResultA("more", 0, NoError)
  ELSE
    LET line2 == rest[1]
        comb == MatchCombined(line2)
    IN IF comb.ok
       THEN IF CUSIPS[line2[4].s] # cusip
            THEN ResultA("pair", 1, PairError(line2[4], cusip))
            ELSE SaleStepA(at, cusip, rest, avail, 2, line2[4], line2, comb)
       ELSE IF ~MatchShares(line2)
            THEN ResultA("parse", 1, ParsingErrorA(at + 1, line2))
       ELSE IF CUSIPS[line2[4].s] # cusip
            THEN ResultA("pair", 1, PairError(line2[4], cusip))
       ELSE IF Len(rest) < 2 THEN ResultA("more", 1, NoError)
       ELSE LET m == MatchAmounts(rest[2])
            IN IF ~m.ok
               THEN ResultA("parse", 2, ParsingErrorA(at + 2, rest[2]))
               ELSE SaleStepA(at, cusip, rest, avail, 3, line2[4], line2, m)

\* The lines after the identifier line that the run reads: each is drawn when
\* the run comes to read it.
RECURSIVE Reads(_, _, _, _)
Reads(at, cusip, rest, avail) ==
  IF ParseA(at, cusip, rest, avail).status = "more"
  THEN UNION {Reads(at, cusip, Append(rest, l), avail) : l \in RecordLines(Len(rest) + 1)}
  ELSE {rest}

NoFile == [exists |-> FALSE, blocks |-> << >>]
IdleB ==
  /\ tlines = << >> /\ line_idx = 0 /\ tokens = << >> /\ records = << >>
  /\ total_proceeds = 0 /\ total_basis = 0 /\ total_wash = 0
  /\ total_num_records = 0 /\ is_txf = TRUE /\ outfile = NoFile
  /\ pcB = "off" /\ errB = NoError

InitA ==
  /\ IdleB
  /\ nlines \in 0..MaxLines
  /\ lines = << >>
  /\ input_line = 0
  /\ txf_category = ""
  /\ totals = NoTotals
  /\ output = NoFile
  /\ pcA = "start"
  /\ errA = NoError

\* lines 59-66: open(output_filename, 'w') and the header
A_Open ==
  /\ pcA = "start"
  /\ output' = [exists |-> TRUE, blocks |-> <<HeaderA>>]
  /\ pcA' = "loop"
  /\ UNCHANGED <<nlines, lines, input_line, txf_category, totals, errA>>
  /\ UNCHANGED varsB

\* lines 73-77
A_Marker ==
  /\ pcA = "loop" /\ input_line < nlines
  /\ \E line \in HeadLines :
       /\ MarkerOf(line) # ""
       /\ lines' = Append(lines, line)
       /\ txf_category' = CategoryAfter(txf_category, line)
  /\ input_line' = input_line + 1
  /\ UNCHANGED <<nlines, totals, output, pcA, errA>>
  /\ UNCHANGED varsB

\* lines 79-81
A_Skip ==
  /\ pcA = "loop" /\ input_line < nlines
  /\ \E line \in HeadLines :
       /\ MarkerOf(line) = ""
       /\ line \notin {<<c>> : c \in CusipValues}
       /\ lines' = Append(lines, line)
  /\ input_line' = input_line + 1
  /\ UNCHANGED <<nlines, txf_category, totals, output, pcA, errA>>
  /\ UNCHANGED varsB

\* lines 83-84
A_NoCategory ==
  /\ pcA = "loop" /\ input_line < nlines
  /\ txf_category = ""
  /\ \E c \in CusipValues : lines' = Append(lines, <<c>>)
  /\ pcA' = "exit"
  /\ errA' = [kind |-> "nocategory", line |-> 0, text |-> << >>]
  /\ UNCHANGED <<nlines, input_line, txf_category, totals, output>>
  /\ UNCHANGED varsB

\* an identifier line under a category whose record does not parse: lines 102-169
A_Abort ==
  /\ pcA = "loop" /\ input_line < nlines
  /\ txf_category # ""
  /\ \E c \in CusipValues :
       \E rest \in Reads(input_line, c, << >>, nlines - input_line - 1) :
         LET r == ParseA(input_line, c, rest, nlines - input_line - 1)
         IN /\ r.status \in {"insufficient", "parse", "pair", "IndexError"}
            /\ lines' = Append(lines, <<c>>) \o rest
            /\ input_line' = input_line + r.reads
            /\ pcA' = IF r.status = "IndexError" THEN "crash" ELSE "exit"
            /\ errA' = r.err
  /\ UNCHANGED <<nlines, txf_category, totals, output>>
  /\ UNCHANGED varsB

\* an identifier line under a category whose record parses: lines 102-199
A_Record ==
  /\ pcA = "loop" /\ input_line < nlines
  /\ txf_category # ""
  /\ \E c \in CusipValues :
       \E rest \in Reads(input_line, c, << >>, nlines - input_line - 1) :
         LET r == ParseA(input_line, c, rest, nlines - input_line - 1)
         IN /\ r.status = "ok"
            /\ lines' = Append(lines, <<c>>) \o rest
            /\ input_line' = input_line + r.reads + 1
            /\ totals' = TotalsAddA(totals, txf_category, r.proceeds, r.basis,
                                    r.has_wash, r.wash)
            /\ output' = [output EXCEPT !.blocks =
                 Append(@, ItemA(txf_category, r.desc, r.acq_date, r.sale_date,
                                 r.basis, r.proceeds, r.has_wash, r.wash))]
  /\ UNCHANGED <<nlines, txf_category, pcA, errA>>
  /\ UNCHANGED varsB

\* line 70 leaves the loop; lines 201-211 print the totals
A_Finish ==
  /\ pcA = "loop" /\ input_line >= nlines
  /\ pcA' = "done"
  /\ UNCHANGED <<nlines, lines, input_line, txf_category, totals, output, errA>>
  /\ UNCHANGED varsB

NextA == A_Open \/ A_Marker \/ A_Skip \/ A_NoCategory \/ A_Abort \/ A_Record \/ A_Finish

SpecA == InitA /\ [][NextA]_vars

(***************************************************************************)
(* taxform_parser.py                                                       *)
(***************************************************************************)
NoneTok == [k |-> "None", s |-> "", t |-> "", a |-> 0, b |-> 0, c |-> 0]

\* cusip.startswith('3825') or cusip.startswith('0207')
IsCusipLine(line) == line[1].k = "id" /\ line[1].s \in {"3825", "0207"}

\* Form1099Tokenizer.find_cusip, from cursor idx: the line found and the cursor after
RECURSIVE find_cusip(_, _)
find_cusip(ls, idx) ==
  IF idx < Len(ls)
  THEN IF IsCusipLine(ls[idx + 1])
       THEN [found |-> TRUE, cusip |-> ls[idx + 1], line_idx |-> idx + 1]
       ELSE find_cusip(ls, idx + 1)
  ELSE [found |-> FALSE, cusip |-> << >>, line_idx |-> idx]

\* Form1099Tokenizer.next_token on the tokenizer state tz: the token (NoneTok is
\* None) and the tokenizer's cursor and buffer after the call
next_token(ls, tz) ==
  IF tz.tokens = << >>
  THEN IF tz.line_idx >= Len(ls)
       THEN [tok |-> NoneTok, line_idx |-> tz.line_idx, tokens |-> << >>]
       ELSE [tok |-> Head(ls[tz.line_idx + 1]), line_idx |-> tz.line_idx + 1,
             tokens |-> Tail(ls[tz.line_idx + 1])]
  ELSE [tok |-> Head(tz.tokens), line_idx |-> tz.line_idx, tokens |-> Tail(tz.tokens)]

\* the check of line 196 left out
cur_string_tokens_available_Never(toks) == FALSE
\* Form1099Tokenizer.cur_string_tokens_available
cur_string_tokens_available(toks) == Len(toks) > 0

\* Form1099Tokenizer.generate_parsing_error
generate_parsing_error(ls, tz) ==
  [kind |-> "ParseException", line |-> tz.line_idx, text |-> ls[tz.line_idx]]

\* float(text) succeeds
IsFloat(tok) == tok.k = "num" /\ tok.a = -1
\* float(text), in hundredths
FloatOf(tok) == DecimalOf(tok)
\* Decimal(text.replace(',', '')) succeeds
IsDecimal(tok) == tok.k = "num"
\* datetime.strptime(text, "%m/%d/%Y")
IsLeap(y) == (y % 4 = 0 /\ y % 100 # 0) \/ y % 400 = 0
DaysIn(m, y) ==
  IF m = 2 THEN (IF IsLeap(y) THEN 29 ELSE 28)
  ELSE IF m \in {4, 6, 9, 11} THEN 30 ELSE 31
IsDate(tok) ==
  /\ tok.k = "date" /\ tok.c >= 1
  /\ tok.a \in 1..12 /\ tok.b >= 1 /\ tok.b <= DaysIn(tok.a, tok.c)
\* the datetime, as the number yyyymmdd that orders as datetimes do
Strptime(tok) == tok.c * 10000 + tok.a * 100 + tok.b
\* d.strftime(SCHWAB_DATE_FORMAT)
Strftime(d) == Date((d \div 100) % 100, d % 100, d \div 10000)
\* '%.2f' % amount, the amount in cents
Fmt2(cents) ==
  IF cents < 0 THEN Num("-", -1, (0 - cents) \div 100, (0 - cents) % 100)
  ELSE Num("", -1, cents \div 100, cents % 100)

\* '%s' % quantity, a float held in hundredths
FloatStr(q) == Fmt2(q)

\* the amount before GROSS read and dropped
WashOf_EarlyOnly(after_basis, after_sale) == IF after_basis = X THEN Empty ELSE after_basis
\* the wash choice of lines 179-185 and 190-192
WashOf(after_basis, after_sale) ==
  IF after_sale # GROSS THEN after_sale
  ELSE IF after_basis = X THEN Empty ELSE after_basis

NoRecord ==
  [quantity |-> 0, cusip |-> << >>, symbol |-> Empty, acquisition_date |-> 0,
   sale_date |-> 0, total_reported_proceeds |-> 0, total_reported_basis |-> 0,
   has_wash |-> FALSE, total_reported_wash |-> 0]

\* One pass of the loop of parse1099Form (lines 160-216) from the tokenizer
\* state (idx, toks).  status: "eof" (find_cusip found nothing), "record", or
\* the exception raised; line_idx and tokens: the tokenizer after the pass.
ResultB(status, tz, err, rec) ==
  [status |-> status, line_idx |-> tz.line_idx, tokens |-> tz.tokens, err |-> err,
   record |-> rec]
Raised(kind) == [kind |-> kind, line |-> 0, text |-> << >>]
ParseRecord(ls, idx, toks) ==
  LET fc == find_cusip(ls, idx)
      n1 == next_token(ls, [line_idx |-> fc.line_idx, tokens |-> toks])
      n2 == next_token(ls, n1)
      n3 == next_token(ls, n2)
      n4 == next_token(ls, n3)
      n5 == next_token(ls, n4)
      n6 == next_token(ls, n5)
      n7 == next_token(ls, n6)
      n8 == next_token(ls, n7)
      n9 == IF n8.tok = X THEN n8 ELSE next_token(ls, n8)
      non_covered == IF n8.tok = X THEN X ELSE n9.tok
      n10 == next_token(ls, n9)
      n11 == next_token(ls, n10)
      n12 == IF n11.tok # GROSS THEN next_token(ls, n11) ELSE n11
      wash == WashOf(n8.tok, n11.tok)
      rec == [quantity |-> FloatOf(n1.tok),
              cusip |-> fc.cusip,
              symbol |-> n4.tok,
              acquisition_date |-> Strptime(n5.tok),
              sale_date |-> Strptime(n10.tok),
              total_reported_proceeds |-> DecimalOf(n6.tok),
              total_reported_basis |-> DecimalOf(n7.tok),
              has_wash |-> wash # Empty,
              total_reported_wash |-> IF wash # Empty THEN DecimalOf(wash) ELSE 0]
      Fail(tz) == ResultB("ParseException", tz, generate_parsing_error(ls, tz), NoRecord)
  IN IF ~fc.found
       THEN ResultB("eof", [line_idx |-> fc.line_idx, tokens |-> toks], NoError, NoRecord)
     ELSE IF n2.tok # SHARES THEN Fail(n2)
     ELSE IF n3.tok # OF THEN Fail(n3)
     ELSE IF ~IsFloat(n1.tok) THEN Fail(n3)
     ELSE IF (n4.tok # GOOG /\ n4.tok # GOOGL) \/ FloatOf(n1.tok) <= 0 THEN Fail(n4)
     ELSE IF non_covered # X THEN Fail(n9)
     ELSE IF n11.tok # GROSS /\ n12.tok # GROSS THEN Fail(n12)
     ELSE IF cur_string_tokens_available(n12.tokens) THEN Fail(n12)
     ELSE IF ~IsDate(n10.tok) THEN ResultB("ValueError", n12, Raised("ValueError"), NoRecord)
     ELSE IF ~IsDecimal(n6.tok) \/ ~IsDecimal(n7.tok) \/ (wash # Empty /\ ~IsDecimal(wash))
       THEN ResultB("InvalidOperation", n12, Raised("InvalidOperation"), NoRecord)
     ELSE IF ~IsDate(n5.tok) THEN ResultB("ValueError", n12, Raised("ValueError"), NoRecord)
     ELSE ResultB("record", n12, NoError, rec)

\* Record.compute_total_wash: the text after the third '$'
compute_total_wash(r) ==
  IF r.has_wash /\ r.total_reported_wash # 0
  THEN <<Fmt2(r.total_reported_wash)>> ELSE << >>

\* the block Record.txf_records writes for one record (line 69)
TxfBlock(r) ==
  TxfStr(<< Field("T", <<W("D")>>),
            Field("N", <<Num("", -1, 715, -1)>>),
            Field("C", <<Num("", -1, 1, -1)>>),
            Field("L", <<Num("", -1, 1, -1)>>),
            Field("P", <<FloatStr(r.quantity), r.symbol>>),
            Field("D", <<Strftime(r.acquisition_date)>>),
            Field("D", <<Strftime(r.sale_date)>>),
            Field("$", <<Fmt2(r.total_reported_basis)>>),
            Field("$", <<Fmt2(r.total_reported_proceeds)>>),
            Field("$", compute_total_wash(r)) >>)
HeaderB ==
  TxfStr(<< Field("V", <<W("042")>>),
            Field("A", <<W("quick"), W("and"), W("dirty"), W("TXF"), W("script")>>),
            Field("D", <<Today>>) >>)
\* Record.txf_records
txf_records(recs) == <<HeaderB>> \o [i \in 1..Len(recs) |-> TxfBlock(recs[i])]

\* records.sort(key=lambda x: x.sale_date): list.sort is stable
SortKey(r) == r.sale_date
\* a sort that is not stable: equal keys change places
RECURSIVE InsertSorted_Unstable(_, _)
InsertSorted_Unstable(sorted, r) ==
  IF sorted = << >> THEN <<r>>
  ELSE IF SortKey(r) <= SortKey(sorted[Len(sorted)])
       THEN Append(InsertSorted_Unstable(SubSeq(sorted, 1, Len(sorted) - 1), r),
                   sorted[Len(sorted)])
       ELSE Append(sorted, r)
RECURSIVE InsertSorted(_, _)
InsertSorted(sorted, r) ==
  IF sorted = << >> THEN <<r>>
  ELSE IF SortKey(r) < SortKey(sorted[Len(sorted)])
       THEN Append(InsertSorted(SubSeq(sorted, 1, Len(sorted) - 1), r), sorted[Len(sorted)])
       ELSE Append(sorted, r)
RECURSIVE SortRecords(_)
SortRecords(recs) ==
  IF recs = << >> THEN << >>
  ELSE InsertSorted(SortRecords(SubSeq(recs, 1, Len(recs) - 1)), recs[Len(recs)])

\* The inputs of the tokenizer-driven converter: a record's tokens wrapped over
\* lines in every way (IsWrapInput), and runs of whole records in the layouts of
\* the statements (IsChunkInput).
CusipGOOG == Id("0207", "9K107")
CusipGOOGL == Id("3825", "9P508")
CusipOther == Id("0207", "1H105")
Q2 == Num("", -1, 2, -1)
AcqDate == Date(1, 27, 2020)
SaleDate == Date(2, 6, 2020)
EarlySaleDate == Date(5, 24, 2016)
Proceeds1 == Num("", 2, 933, 94)
Basis1 == Num("", 2, 933, 42)
Wash1 == Num("", 1, 100, 22)
Wash2 == Num("", -1, 200, 0)

\* the lines of a token stream broken after the positions in breaks
RECURSIVE Wrap(_, _)
Wrap(stream, breaks) ==
  IF stream = << >> THEN << >>
  ELSE LET cuts == (breaks \cap (1..Len(stream))) \cup {Len(stream)}
           first == CHOOSE b \in cuts : \A c \in cuts : b <= c
       IN <<SubSeq(stream, 1, first)>>
            \o Wrap(SubSeq(stream, first + 1, Len(stream)),
                    {b - first : b \in {c \in breaks : c > first}})
Opt(present, tok) == IF present THEN <<tok>> ELSE << >>
RecordStream(w1, w2, trail) ==
  <<CusipGOOG, Q2, SHARES, OF, GOOG, AcqDate, Proceeds1, Basis1>> \o Opt(w1, Wash1)
    \o <<X, SaleDate>> \o Opt(w2, Wash2) \o <<GROSS>> \o Opt(trail, W("Total"))
WrapBreaks(stream) == SUBSET (1..(Len(stream) - 1))
IsWrapInput(ls) ==
  \E w1 \in BOOLEAN, w2 \in BOOLEAN, trail \in BOOLEAN :
    \E breaks \in WrapBreaks(RecordStream(w1, w2, trail)) :
      ls = Wrap(RecordStream(w1, w2, trail), breaks)

StdRecord(id, q, sym, acq, p, b, sale) ==
  << <<id>>, <<q, SHARES, OF, sym>>, <<acq, p, b, X>>, <<sale, GROSS>> >>
GoodChunks ==
  { StdRecord(CusipGOOG, Q2, GOOG, AcqDate, Proceeds1, Basis1, SaleDate),
    << <<CusipGOOGL>>, <<Num("", -1, 1, 50), SHARES, OF, GOOGL>>,
       <<Date(11, 25, 2015), Num("", -1, 730, 98), Num("", -1, 769, 63), X>>,
       <<EarlySaleDate>>, <<Num("", -1, 38, 65)>>, <<GROSS>> >>,
    << <<CusipGOOG>>,
       <<Num("", -1, 16, 54), SHARES, OF, GOOG, Date(8, 25, 2020),
         Num("", 27, 212, 97), Num("", 26, 273, 91), X>>,
       <<SaleDate, GROSS>> >>,
    << <<CusipGOOG>>, <<Num("", -1, 3, -1), SHARES, OF, GOOG>>,
       <<Date(7, 25, 2019), Num("", 4, 498, 54), Num("", 3, 413, 43), Wash1, X>>,
       <<Date(8, 6, 2020), GROSS>> >> }
OddChunks ==
  { StdRecord(CusipGOOG, Q2, GOOGL, AcqDate, Proceeds1, Basis1, SaleDate),
    StdRecord(CusipOther, Q2, GOOG, AcqDate, Proceeds1, Basis1, SaleDate),
    StdRecord(CusipGOOG, Q2, GOOG, AcqDate, Num("-", -1, 5, 0), Basis1, SaleDate),
    StdRecord(CusipGOOG, Num("", -1, 0, -1), GOOG, AcqDate, Proceeds1, Basis1, SaleDate),
    StdRecord(CusipGOOG, Num("-", -1, 1, -1), GOOG, AcqDate, Proceeds1, Basis1, SaleDate),
    StdRecord(CusipGOOG, Q2, GOOG, AcqDate, Proceeds1, Basis1, Date(2, 30, 2020)),
    StdRecord(CusipGOOG, Q2, GOOG, AcqDate, W("N/A"), Basis1, SaleDate),
    << <<CusipGOOG>>, <<Q2, SHARES, OF, GOOG>> >>,
    << <<CusipGOOG>>, <<Q2, SHARES, OF, GOOG>>, <<AcqDate, Proceeds1, Basis1, X>>,
       <<SaleDate, GROSS, W("Total")>> >>,
    << <<W("Schwab")>> >> }
Chunks == GoodChunks \cup OddChunks

\* an input is made of at most MaxChunks chunks, and the text ends with a newline
MaxChunks == 3
RECURSIVE Concat(_)
Concat(seqs) == IF seqs = << >> THEN << >> ELSE Head(seqs) \o Concat(Tail(seqs))
IsChunkInput(ls) ==
  \E n \in 0..MaxChunks :
    \E cs \in [1..n -> Chunks] : ls = Concat(cs) \o << <<Empty>> >>

InitB ==
  /\ nlines = 0 /\ lines = << >> /\ input_line = 0 /\ txf_category = ""
  /\ totals = NoTotals /\ output = NoFile /\ pcA = "off" /\ errA = NoError
  /\ \/ IsWrapInput(tlines) /\ is_txf = TRUE
     \/ IsChunkInput(tlines) /\ is_txf \in BOOLEAN
  /\ line_idx = 0
  /\ tokens = << >>
  /\ records = << >>
  /\ total_proceeds = 0 /\ total_basis = 0 /\ total_wash = 0
  /\ total_num_records = 0
  /\ outfile = NoFile
  /\ pcB = "parse"
  /\ errB = NoError

\* a pass of the loop that appends a record: lines 160-216
B_Record ==
  /\ pcB = "parse"
  /\ LET r == ParseRecord(tlines, line_idx, tokens)
     IN /\ r.status = "record"
        /\ line_idx' = r.line_idx
        /\ tokens' = r.tokens
        /\ total_num_records' = total_num_records + 1
        /\ total_proceeds' = total_proceeds + r.record.total_reported_proceeds
        /\ total_basis' = total_basis + r.record.total_reported_basis
        /\ total_wash' = total_wash + (IF r.record.total_reported_wash # 0
                                        THEN r.record.total_reported_wash ELSE 0)
        /\ records' = Append(records, r.record)
  /\ UNCHANGED <<tlines, is_txf, outfile, pcB, errB>>
  /\ UNCHANGED varsA

\* a pass of the loop that raises ParseException: lines 166, 170, 174, 187, 194, 197
B_ParseException ==
  /\ pcB = "parse"
  /\ LET r == ParseRecord(tlines, line_idx, tokens)
     IN /\ r.status = "ParseException"
        /\ line_idx' = r.line_idx
        /\ tokens' = r.tokens
        /\ errB' = r.err
  /\ pcB' = "raise"
  /\ UNCHANGED <<tlines, records, total_proceeds, total_basis, total_wash,
                 total_num_records, is_txf, outfile>>
  /\ UNCHANGED varsA

\* a pass of the loop in which strptime or Decimal raises: lines 203-207
B_ConversionError ==
  /\ pcB = "parse"
  /\ LET r == ParseRecord(tlines, line_idx, tokens)
     IN /\ r.status \in {"ValueError", "InvalidOperation"}
        /\ line_idx' = r.line_idx
        /\ tokens' = r.tokens
        /\ errB' = r.err
  /\ pcB' = "raise"
  /\ UNCHANGED <<tlines, records, total_proceeds, total_basis, total_wash,
                 total_num_records, is_txf, outfile>>
  /\ UNCHANGED varsA

\* find_cusip returns None: lines 160-162 and 218-221
B_Return ==
  /\ pcB = "parse"
  /\ LET r == ParseRecord(tlines, line_idx, tokens)
     IN /\ r.status = "eof"
        /\ line_idx' = r.line_idx
        /\ tokens' = r.tokens
  /\ pcB' = "sort"
  /\ UNCHANGED <<tlines, records, total_proceeds, total_basis, total_wash,
                 total_num_records, is_txf, outfile, errB>>
  /\ UNCHANGED varsA

\* line 239
B_Sort ==
  /\ pcB = "sort"
  /\ records' = SortRecords(records)
  /\ pcB' = "check"
  /\ UNCHANGED <<tlines, line_idx, tokens, total_proceeds, total_basis, total_wash,
                 total_num_records, is_txf, outfile, errB>>
  /\ UNCHANGED varsA

\* lines 240-241
B_NoRecords ==
  /\ pcB = "check" /\ Len(records) = 0
  /\ pcB' = "raise"
  /\ errB' = Raised("NoRecords")
  /\ UNCHANGED <<tlines, line_idx, tokens, records, total_proceeds, total_basis,
                 total_wash, total_num_records, is_txf, outfile>>
  /\ UNCHANGED varsA

\* lines 242-244
B_Write ==
  /\ pcB = "check" /\ Len(records) # 0 /\ is_txf
  /\ outfile' = [exists |-> TRUE, blocks |-> txf_records(records)]
  /\ pcB' = "done"
  /\ UNCHANGED <<tlines, line_idx, tokens, records, total_proceeds, total_basis,
                 total_wash, total_num_records, is_txf, errB>>
  /\ UNCHANGED varsA

\* lines 245-246
B_BadFormat ==
  /\ pcB = "check" /\ Len(records) # 0 /\ ~is_txf
  /\ pcB' = "raise"
  /\ errB' = Raised("BadFormat")
  /\ UNCHANGED <<tlines, line_idx, tokens, records, total_proceeds, total_basis,
                 total_wash, total_num_records, is_txf, outfile>>
  /\ UNCHANGED varsA

NextB ==
  \/ B_Record \/ B_ParseException \/ B_ConversionError \/ B_Return
  \/ B_Sort \/ B_NoRecords \/ B_Write \/ B_BadFormat

SpecB == InitB /\ [][NextB]_vars

(***************************************************************************)
(* Properties                                                              *)
(***************************************************************************)
RECURSIVE SumInts(_)
SumInts(ns) == IF ns = << >> THEN 0 ELSE Head(ns) + SumInts(Tail(ns))
\* the '$' fields of an output block, in order
AmountFields(block) == SelectSeq(block, LAMBDA f : f.op = "$")
\* the record blocks of an output file: all but the header
RecordBlocks(file) == SubSeq(file.blocks, 2, Len(file.blocks))
AbortedA == pcA \in {"exit", "crash"}
AbortedB == pcB = "raise"

\* C1: whenever a run aborts, no output file has been produced.
C1_NoOutputOnAbort ==
  /\ AbortedA => ~output.exists
  /\ AbortedB => ~outfile.exists

\* C2: the totals are the sums of the proceeds, basis and wash amounts of the
\* accepted records (per classification key where there is one), and no step
\* makes a total smaller.
TotalsAreSumsA ==
  \A key \in DOMAIN totals :
    LET code == IF key = "B" THEN 711 ELSE 713
        mine == SelectSeq(RecordBlocks(output), LAMBDA blk : blk[2].value[1].b = code)
        amt(i, n) == IF n <= Len(AmountFields(mine[i]))
                     THEN DecimalOf(AmountFields(mine[i])[n].value[1]) ELSE 0
    IN /\ Len(mine) >= 1
       /\ totals[key].basis = SumInts([i \in 1..Len(mine) |-> amt(i, 1)])
       /\ totals[key].proceeds = SumInts([i \in 1..Len(mine) |-> amt(i, 2)])
       /\ totals[key].wash = SumInts([i \in 1..Len(mine) |-> amt(i, 3)])
TotalsAreSumsB ==
  /\ total_num_records = Len(records)
  /\ total_proceeds = SumInts([i \in 1..Len(records) |-> records[i].total_reported_proceeds])
  /\ total_basis = SumInts([i \in 1..Len(records) |-> records[i].total_reported_basis])
  /\ total_wash = SumInts([i \in 1..Len(records) |->
                     IF records[i].has_wash THEN records[i].total_reported_wash ELSE 0])
TotalsGrow ==
  /\ \A key \in DOMAIN totals :
       /\ key \in DOMAIN totals'
       /\ totals'[key].proceeds >= totals[key].proceeds
       /\ totals'[key].basis >= totals[key].basis
       /\ totals'[key].wash >= totals[key].wash
  /\ total_proceeds' >= total_proceeds
  /\ total_basis' >= total_basis
  /\ total_wash' >= total_wash
C2_TotalsAreSums == [][TotalsAreSumsA' /\ TotalsAreSumsB' /\ TotalsGrow]_vars

\* C3: every record produced has an identifier of the registry whose symbol is
\* the symbol stated inline in the record.
\* taxform_parser.py line 137: the identifiers of the two symbols
RegistryB ==
  [i \in {Id("0207", "9K305"), Id("3825", "9P508"), Id("0207", "9K107"),
          Id("3825", "9P706")} |->
     IF i \in {Id("0207", "9K305"), Id("3825", "9P508")} THEN GOOGL ELSE GOOG]
C3_IdentifierMatchesSymbol ==
  \A i \in 1..Len(records) :
    /\ Len(records[i].cusip) = 1
    /\ records[i].cusip[1] \in DOMAIN RegistryB
    /\ RegistryB[records[i].cusip[1]] = records[i].symbol

\* C4: every accepted record has a quantity above zero, in both converters.
C4_QuantityPositive ==
  /\ \A i \in 1..Len(RecordBlocks(output)) :
       DecimalOf(RecordBlocks(output)[i][3].value[1]) > 0
  /\ \A i \in 1..Len(records) : records[i].quantity > 0

\* C5: the block of a record has a third amount line exactly when the record
\* has a wash amount, and no amount line is empty.
C5_WashOmittedWhenAbsent ==
  pcB = "done" =>
    \A i \in 1..Len(records) :
      LET amounts == AmountFields(outfile.blocks[i + 1])
      IN /\ Len(amounts) = (IF records[i].has_wash THEN 3 ELSE 2)
         /\ \A n \in 1..Len(amounts) : amounts[n].value # << >>

\* C6: in the checkbox-driven converter a record carries the refnumber of the
\* most recent marker line before its identifier line (B -> 711, E -> 713),
\* and its amounts are added to the totals of that marker's key alone.
LastMarker(ls) ==
  LET marked == {i \in 1..Len(ls) : MarkerOf(ls[i]) # ""}
  IN IF marked = {} THEN ""
     ELSE MarkerOf(ls[CHOOSE i \in marked : \A j \in marked : j <= i])
C6_Step ==
  (pcA = "loop" /\ Len(output'.blocks) > Len(output.blocks)) =>
    LET key == LastMarker(lines)
        blk == output'.blocks[Len(output'.blocks)]
    IN /\ key \in {"B", "E"}
       /\ lines'[Len(lines) + 1] \in {<<c>> : c \in CusipValues}
       /\ blk[2].op = "N"
       /\ blk[2].value = <<Num("", -1, IF key = "B" THEN 711 ELSE 713, -1)>>
       /\ DOMAIN totals' = DOMAIN totals \cup {key}
       /\ \A k \in DOMAIN totals : k # key => totals'[k] = totals[k]
       /\ totals'[key].proceeds =
            TotalsGet(totals, key).proceeds + DecimalOf(AmountFields(blk)[2].value[1])
C6_MarkerAppliesUntilNext == [][C6_Step]_vars
\* two records have been emitted, under different markers
C6_Witness ==
  /\ Len(output.blocks) >= 3
  /\ output.blocks[2][2].value # output.blocks[3][2].value
  /\ DOMAIN totals = {"B", "E"}

\* C7: a token stream identifier, q, SHARES, OF, symbol, acq-date, proceeds,
\* basis, [w1], X, sale-date, [w2], GROSS, wrapped over lines in any way with
\* GROSS last on its line, yields exactly one record with those fields, the
\* wash being w2 if present, else w1 if present, else absent.
RECURSIVE Flatten(_)
Flatten(ls) == IF ls = << >> THEN << >> ELSE Head(ls) \o Flatten(Tail(ls))
IsAmountToken(tok) == tok.k = "num"
IsRecordStream(st) ==
  /\ Len(st) \in 11..13
  /\ st[1].k = "id" /\ st[1].s \in {"3825", "0207"}
  /\ st[2].k = "num" /\ st[2].a = -1 /\ DecimalOf(st[2]) > 0
  /\ st[3] = SHARES /\ st[4] = OF /\ st[5] \in {GOOG, GOOGL}
  /\ IsDate(st[6]) /\ IsAmountToken(st[7]) /\ IsAmountToken(st[8])
  /\ LET x == IF st[9] = X THEN 9 ELSE 10
     IN /\ (x = 10 => IsAmountToken(st[9]) /\ st[10] = X)
        /\ Len(st) >= x + 2
        /\ IsDate(st[x + 1])
        /\ \/ Len(st) = x + 2 /\ st[x + 2] = GROSS
           \/ Len(st) = x + 3 /\ IsAmountToken(st[x + 2]) /\ st[x + 3] = GROSS
ExpectedRecord(st, cusip) ==
  LET x == IF st[9] = X THEN 9 ELSE 10
      late == Len(st) = x + 3
      early == x = 10
  IN [quantity |-> DecimalOf(st[2]),
      cusip |-> cusip,
      symbol |-> st[5],
      acquisition_date |-> st[6].c * 10000 + st[6].a * 100 + st[6].b,
      sale_date |-> st[x + 1].c * 10000 + st[x + 1].a * 100 + st[x + 1].b,
      total_reported_proceeds |-> DecimalOf(st[7]),
      total_reported_basis |-> DecimalOf(st[8]),
      has_wash |-> late \/ early,
      total_reported_wash |-> IF late THEN DecimalOf(st[x + 2])
                              ELSE IF early THEN DecimalOf(st[9]) ELSE 0]
ParsedAsExpected(cusip) ==
  /\ errB.kind \notin {"ParseException", "ValueError", "InvalidOperation", "NoRecords"}
  /\ records = <<ExpectedRecord(Flatten(tlines), cusip)>>
\* as claimed: whatever line the identifier is on
C7_AnyWrapping ==
  (pcB \notin {"off", "parse"} /\ IsRecordStream(Flatten(tlines))) =>
    ParsedAsExpected(<<Flatten(tlines)[1]>>)
\* as amended: with the identifier alone on its line
C7_IdentifierOnOwnLine ==
  (pcB \notin {"off", "parse"} /\ IsRecordStream(Flatten(tlines)) /\ Len(tlines[1]) = 1) =>
    ParsedAsExpected(tlines[1])
\* a record wrapped over seven lines or more whose wash comes before GROSS
C7_Witness ==
  /\ pcB = "done" /\ IsRecordStream(Flatten(tlines)) /\ Len(tlines[1]) = 1
  /\ Len(tlines) >= 7
  /\ Len(Flatten(tlines)) = 13
  /\ Len(records) = 1 /\ records[1].has_wash
  /\ records[1].total_reported_wash = 20000

\* C8: a structural mismatch after an identifier line, the input ending inside
\* a record included, ends the run with the parse error that carries the line
\* number and the text of the offending line, and in no other way.
C8_AbortIsParseError ==
  /\ (AbortedA /\ errA.kind \notin {"nocategory", "pair"}) =>
       /\ errA.kind = "parse"
       /\ errA.line \in 1..Len(lines)
       /\ errA.text = lines[errA.line]
  /\ (AbortedB /\ errB.kind \notin {"NoRecords", "BadFormat", "ValueError",
                                     "InvalidOperation"}) =>
       /\ errB.kind = "ParseException"
       /\ errB.line \in 1..Len(tlines)
       /\ errB.text = tlines[errB.line]

\* C9: main sorts the records by sale date, stably, and writes them in that
\* order: the blocks written are in non-decreasing sale-date order, they are the
\* parsed records permuted, and records with equal sale dates keep their order.
IsStableSortOf(after, before) ==
  /\ Len(after) = Len(before)
  /\ \E pi \in [1..Len(after) -> 1..Len(before)] :
       /\ \A i, j \in 1..Len(after) : i # j => pi[i] # pi[j]
       /\ \A i \in 1..Len(after) : after[i] = before[pi[i]]
       /\ \A i, j \in 1..Len(after) :
            i < j => \/ after[i].sale_date < after[j].sale_date
                     \/ after[i].sale_date = after[j].sale_date /\ pi[i] < pi[j]
BlockSaleDate(blk) == blk[7].value[1].c * 10000 + blk[7].value[1].a * 100 + blk[7].value[1].b
C9_Step ==
  /\ (pcB = "sort" /\ pcB' = "check") => IsStableSortOf(records', records)
  /\ (pcB = "check" /\ pcB' = "done") =>
       /\ Len(outfile'.blocks) = Len(records) + 1
       /\ \A i \in 1..Len(records) :
            /\ BlockSaleDate(outfile'.blocks[i + 1]) = records[i].sale_date
            /\ DecimalOf(outfile'.blocks[i + 1][5].value[1]) = records[i].quantity
       /\ \A i \in 2..Len(records) :
            BlockSaleDate(outfile'.blocks[i]) <= BlockSaleDate(outfile'.blocks[i + 1])
C9_SortedBySaleDate == [][C9_Step]_vars
\* three records written, the one parsed first written last, after two records
\* of one sale date that are not alike
C9_Witness ==
  /\ pcB = "done" /\ Len(records) = 3
  /\ tlines[2][1] = Num("", -1, 3, -1) /\ records[3].quantity = 300
  /\ records[1].sale_date = records[2].sale_date
  /\ records[1].quantity # records[2].quantity

\* C10: a token left on the line after GROSS is a parse error; so every
\* accepted record ends at the end of a line, the token buffer is empty whenever
\* find_cusip is called, and the line cursor never moves back.
C10_Step ==
  /\ line_idx' >= line_idx
  /\ pcB' = "parse" => tokens' = << >>
  /\ Len(records') > Len(records) =>
       tlines[line_idx'][Len(tlines[line_idx'])] = GROSS
  /\ tokens' # << >> => pcB' = "raise" /\ errB'.kind = "ParseException"
====
